---- MODULE Spec2Model ----
(***************************************************************************)
(* A model of the PNG chunk codec of pngme: the 4-byte chunk type code     *)
(* (src/src/chunk_type.rs) and the chunk record with its CRC and its byte  *)
(* layout (src/src/chunk.rs).                                              *)
(*                                                                         *)
(* Every operation of the codec is a pure function.  A behaviour of the    *)
(* model is one use of the codec: Init draws an input, and the actions     *)
(* apply the operations to it and to each other's results.                 *)
(*                                                                         *)
(* A byte is a number in 0..255.  A u32 is kept as its two 16-bit halves,  *)
(* [hi, lo], since the values 2^31 .. 2^32-1 matter here.                  *)
(***************************************************************************)
EXTENDS Integers, Sequences, FiniteSets, TLC

VARIABLES
    width,   \* the number of bits of the type u32 in this build of the model
    input,   \* the input drawn for this use of the codec
    op,      \* the operation applied last
    ctype,   \* the ChunkType held, or None
    chunk,   \* the Chunk held, or None
    out,     \* the bytes Chunk::as_bytes returned last
    ext,     \* the bytes appended to the buffer before it was decoded again
    res      \* the Result returned last

vars == <<width, input, op, ctype, chunk, out, ext, res>>

None == [tag |-> "None"]

----------------------------------------------------------------------------
(* Bounds of the model.                                                    *)

\* The longest chunk data drawn for Chunk::new and for the buffers decoded.
MaxData == 2
\* The most bytes that follow the checksum in a buffer.
MaxTrail == 1
\* The longest string, in characters, given to ChunkType::from_str.
MaxStr == 5
\* The width of u32 in the narrow build, where data can be 2^width bytes long.
NarrowBits == 2

----------------------------------------------------------------------------
(* Machine integers.                                                       *)

Half == 65536

U32(hi, lo) == [hi |-> hi, lo |-> lo]

\* u32::to_be_bytes
to_be_bytes(x) == <<x.hi \div 256, x.hi % 256, x.lo \div 256, x.lo % 256>>

\* u32::to_le_bytes
to_le_bytes(x) == <<x.lo % 256, x.lo \div 256, x.hi % 256, x.hi \div 256>>

\* u32::from_be_bytes
from_be_bytes(b) == U32(b[1] * 256 + b[2], b[3] * 256 + b[4])

\* x >= y on u32
U32Ge(x, y) == x.hi > y.hi \/ (x.hi = y.hi /\ x.lo >= y.lo)

RECURSIVE Pow2(_)
Pow2(n) == IF n = 0 THEN 1 ELSE 2 * Pow2(n - 1)

Min(a, b) == IF a <= b THEN a ELSE b
Max(a, b) == IF a >= b THEN a ELSE b

\* `n as u32` for a usize n: n modulo 2^w, w the width of u32.
AsU32(n, w) ==
    U32((n \div Half) % Pow2(Max(w - 16, 0)), n % Pow2(Min(w, 16)))

\* The u32 x as a number, for x < 2^31.
ToNat(x) == x.hi * Half + x.lo

RECURSIVE BitXor(_, _)
BitXor(a, b) ==
    IF a = 0 THEN b
    ELSE IF b = 0 THEN a
    ELSE ((a + b) % 2) + 2 * BitXor(a \div 2, b \div 2)

RECURSIVE BitAnd(_, _)
BitAnd(a, b) ==
    IF a = 0 \/ b = 0 THEN 0
    ELSE ((a % 2) * (b % 2)) + 2 * BitAnd(a \div 2, b \div 2)

\* 1 << n on u8
Shl1(n) == Pow2(n) % 256

----------------------------------------------------------------------------
(* crc::Crc::<u32>::new(&crc::CRC_32_CKSUM).checksum(bytes)                *)

\* poly 0x04c11db7, init 0x00000000, refin false, refout false,
\* xorout 0xffffffff
CRC_32_CKSUM ==
    [poly |-> U32(1217, 7607), init |-> U32(0, 0), xorout |-> U32(65535, 65535)]

U32Xor(x, y) == U32(BitXor(x.hi, y.hi), BitXor(x.lo, y.lo))

\* One bit of the register: shift left, and reduce by the polynomial when
\* the bit shifted out is one.
CrcShift(alg, c) ==
    LET s == U32(((c.hi % 32768) * 2) + (c.lo \div 32768), (c.lo % 32768) * 2)
    IN  IF c.hi >= 32768 THEN U32Xor(s, alg.poly) ELSE s

RECURSIVE CrcBits(_, _, _)
CrcBits(alg, c, n) == IF n = 0 THEN c ELSE CrcShift(alg, CrcBits(alg, c, n - 1))

\* One byte: it enters at the top of the register (no input reflection).
CrcByte(alg, c, byte) == CrcBits(alg, U32Xor(c, U32(byte * 256, 0)), 8)

\* The register c after bytes[from .. to].  The bytes are taken in order;
\* the range is halved to keep the evaluation shallow.
RECURSIVE CrcUpdate(_, _, _, _, _)
CrcUpdate(alg, c, bytes, from, to) ==
    IF from > to THEN c
    ELSE IF from = to THEN CrcByte(alg, c, bytes[from])
    ELSE LET mid  == (from + to) \div 2
             left == CrcUpdate(alg, c, bytes, from, mid)
         IN  \* the register is a u32 after every byte
             IF left.hi < Half /\ left.lo < Half
             THEN CrcUpdate(alg, left, bytes, mid + 1, to)
             ELSE left

checksum(alg, bytes) == U32Xor(CrcUpdate(alg, alg.init, bytes, 1, Len(bytes)), alg.xorout)

----------------------------------------------------------------------------
(* Results and errors.                                                     *)

Ok(v) == [tag |-> "Ok", val |-> v]

\* ChunkTypeDecodingError::BadByte(u8)
BadByte(byte) == [tag |-> "BadByte", byte |-> byte]

\* ChunkTypeDecodingError::BadLength(usize)
BadLength(length) == [tag |-> "BadLength", length |-> length]

\* ChunkDecodingError::BadCrc(u32, u32): the provided and the true CRC
BadCrc(provided_crc, true_crc) ==
    [tag |-> "BadCrc", provided_crc |-> provided_crc, true_crc |-> true_crc]

\* ChunkDecodingError::LongLength(usize)
LongLength(length) == [tag |-> "LongLength", length |-> length]

\* The buffer ends before a field of the chunk does.
TruncatedBuffer == [tag |-> "TruncatedBuffer"]

----------------------------------------------------------------------------
(* ChunkType (src/src/chunk_type.rs).  A ChunkType is [bytes |-> b], b a   *)
(* sequence of 4 bytes; byte k of the source is b[k + 1].                  *)

ChunkType(b) == [bytes |-> b]

bytes(self) == self.bytes

is_ascii_uppercase(byte) == byte >= 65 /\ byte <= 90

is_ascii_lowercase(byte) == byte >= 97 /\ byte <= 122

\* A variant of is_valid_byte: one range from 'A' to 'z'.
is_valid_byte_range(byte) == byte >= 65 /\ byte <= 122

is_valid_byte(byte) == is_ascii_uppercase(byte) \/ is_ascii_lowercase(byte)

\* A variant of is_indicator_zero: the mask is 1 << (n - 1).
is_indicator_zero_below(byte, n) == BitAnd(byte, Shl1(n - 1)) = 0

\* (byte & (1 << n)) == 0
is_indicator_zero(byte, n) == BitAnd(byte, Shl1(n)) = 0

is_critical(self) == is_indicator_zero(self.bytes[1], 5)

is_public(self) == is_indicator_zero(self.bytes[2], 5)

is_reserved_bit_valid(self) == is_indicator_zero(self.bytes[3], 5)

\* A variant of is_safe_to_copy: the sense of the other three flags.
is_safe_to_copy_plain(self) == is_indicator_zero(self.bytes[4], 5)

is_safe_to_copy(self) == ~is_indicator_zero(self.bytes[4], 5)

is_valid(self) == is_reserved_bit_valid(self)

\* The loop of try_from, from position i on: the position of the byte it
\* returns the error for, or 0 when it runs to the end.
RECURSIVE try_from_loop(_, _)
try_from_loop(b, i) ==
    IF i > Len(b) THEN 0
    ELSE IF ~is_valid_byte(b[i]) THEN i
    ELSE try_from_loop(b, i + 1)

\* impl TryFrom<[u8; 4]> for ChunkType
ChunkType_try_from(b) ==
    LET i == try_from_loop(b, 1)
    IN  IF i # 0 THEN BadByte(b[i]) ELSE Ok(ChunkType(b))

\* char::encode_utf8: the bytes of one character of a str.
encode_utf8(c) ==
    IF c < 128 THEN <<c>>
    ELSE IF c < 2048 THEN <<192 + (c \div 64), 128 + (c % 64)>>
    ELSE IF c < 65536
    THEN <<224 + (c \div 4096), 128 + ((c \div 64) % 64), 128 + (c % 64)>>
    ELSE <<240 + (c \div 262144), 128 + ((c \div 4096) % 64),
           128 + ((c \div 64) % 64), 128 + (c % 64)>>

\* str::as_bytes: a str is modelled as the sequence of its characters
\* (code points), and its bytes are their UTF-8 encodings in order.
RECURSIVE str_as_bytes(_)
str_as_bytes(s) ==
    IF s = <<>> THEN <<>> ELSE encode_utf8(Head(s)) \o str_as_bytes(Tail(s))

\* A variant of str_len: the number of characters, s.chars().count().
str_len_chars(s) == Len(s)

\* str::len: the length in bytes.
str_len(s) == Len(str_as_bytes(s))

\* The loop of from_str over s.as_bytes(), from position i on, filling the
\* array acc.
RECURSIVE from_str_loop(_, _, _)
from_str_loop(b, acc, i) ==
    IF i > Len(b) THEN Ok(ChunkType(acc))
    ELSE IF is_valid_byte(b[i])
    THEN from_str_loop(b, [acc EXCEPT ![i] = b[i]], i + 1)
    ELSE BadByte(b[i])

\* impl FromStr for ChunkType
ChunkType_from_str(s) ==
    IF str_len(s) # 4 THEN BadLength(str_len(s))
    ELSE from_str_loop(str_as_bytes(s), <<0, 0, 0, 0>>, 1)

----------------------------------------------------------------------------
(* Chunk (src/src/chunk.rs).                                               *)

\* A variant of MAXIMUM_LENGTH: u32::MAX.
MAXIMUM_LENGTH_max == U32(65535, 65535)

\* 1 << 31
MAXIMUM_LENGTH == U32(32768, 0)

\* `chunk_data.len() as u32`
len_as_u32(n) == AsU32(n, width)

\* A variant of Chunk::new: the checksum covers the data alone.
Chunk_new_data_crc(chunk_type, chunk_data) ==
    [length     |-> len_as_u32(Len(chunk_data)),
     chunk_type |-> chunk_type,
     chunk_data |-> chunk_data,
     crc        |-> checksum(CRC_32_CKSUM, chunk_data)]

\* Chunk::new
Chunk_new(chunk_type, chunk_data) ==
    [length     |-> len_as_u32(Len(chunk_data)),
     chunk_type |-> chunk_type,
     chunk_data |-> chunk_data,
     crc        |-> checksum(CRC_32_CKSUM, bytes(chunk_type) \o chunk_data)]

length(self) == self.length

chunk_type(self) == self.chunk_type

data(self) == self.chunk_data

crc(self) == self.crc

\* A variant of Chunk::as_bytes: the length is written little-endian.
Chunk_as_bytes_le(self) ==
    to_le_bytes(self.length) \o self.chunk_type.bytes \o self.chunk_data
        \o to_be_bytes(self.crc)

\* Chunk::as_bytes
Chunk_as_bytes(self) ==
    to_be_bytes(length(self)) \o bytes(chunk_type(self)) \o data(self)
        \o to_be_bytes(crc(self))

\* A variant of Chunk::try_from: the checksum is the last 4 bytes of the
\* buffer, and the buffer must end with the chunk.
Chunk_try_from_to_end(value) ==
    IF Len(value) < 4 THEN TruncatedBuffer
    ELSE
    LET declared == from_be_bytes(SubSeq(value, 1, 4))
    IN  IF U32Ge(declared, U32(32768, 0)) THEN LongLength(declared)
        ELSE IF Len(value) < 8 THEN TruncatedBuffer
        ELSE
        LET ty == ChunkType_try_from(SubSeq(value, 5, 8))
            n  == ToNat(declared)
        IN  IF ty.tag # "Ok" THEN ty
            ELSE IF Len(value) - 12 # n THEN TruncatedBuffer
            ELSE
            LET chunk_data == SubSeq(value, 9, Len(value) - 4)
                supplied   == from_be_bytes(SubSeq(value, Len(value) - 3, Len(value)))
                expected   == checksum(CRC_32_CKSUM, ty.val.bytes \o chunk_data)
            IN  IF supplied # expected THEN BadCrc(supplied, expected)
                ELSE Ok([length     |-> declared,
                         chunk_type |-> ty.val,
                         chunk_data |-> chunk_data,
                         crc        |-> supplied])

\* impl TryFrom<&[u8]> for Chunk.  The body is not in the source; this is
\* the decoding algorithm of the specification, steps (1) to (8).
Chunk_try_from(value) ==
    IF Len(value) < 4 THEN TruncatedBuffer
    ELSE
    LET declared == from_be_bytes(SubSeq(value, 1, 4))
    IN  IF U32Ge(declared, MAXIMUM_LENGTH) THEN LongLength(declared)
        ELSE IF Len(value) < 8 THEN TruncatedBuffer
        ELSE
        LET ty == ChunkType_try_from(SubSeq(value, 5, 8))
            n  == ToNat(declared)
        IN  IF ty.tag # "Ok" THEN ty
            ELSE IF Len(value) - 8 < n THEN TruncatedBuffer
            ELSE IF Len(value) - 8 - n < 4 THEN TruncatedBuffer
            ELSE
            LET chunk_data == SubSeq(value, 9, 8 + n)
                supplied   == from_be_bytes(SubSeq(value, 9 + n, 12 + n))
                expected   == checksum(CRC_32_CKSUM, bytes(ty.val) \o chunk_data)
            IN  IF supplied # expected THEN BadCrc(supplied, expected)
                ELSE Ok([length     |-> declared,
                         chunk_type |-> ty.val,
                         chunk_data |-> chunk_data,
                         crc        |-> supplied])

----------------------------------------------------------------------------
(* The inputs.                                                             *)

RuSt == <<82, 117, 83, 116>>
ruSt == <<114, 117, 83, 116>>
RUSt == <<82, 85, 83, 116>>
Rust == <<82, 117, 115, 116>>
RuST == <<82, 117, 83, 84>>
Ru1t == <<82, 117, 49, 116>>

\* "This is where your secret message will be!"
Message ==
    <<84, 104, 105, 115, 32, 105, 115, 32, 119, 104, 101, 114, 101, 32, 121,
      111, 117, 114, 32, 115, 101, 99, 114, 101, 116, 32, 109, 101, 115, 115,
      97, 103, 101, 32, 119, 105, 108, 108, 32, 98, 101, 33>>

\* The buffers of test_valid_chunk_from_bytes and
\* test_invalid_chunk_from_bytes: checksums 2882656334 and 2882656333.
TestCrc == U32(43985, 55374)
TestBadCrc == U32(43985, 55373)
TestBuffer(c) == to_be_bytes(U32(0, 42)) \o RuSt \o Message \o to_be_bytes(c)

\* The bytes around the two ranges of letters, and the ends of u8.
EdgeBytes == {0, 64, 65, 90, 91, 96, 97, 122, 123, 255}

TypeInputs ==
    {<<a, b, c, d>> : a \in EdgeBytes, b \in EdgeBytes, c \in EdgeBytes, d \in EdgeBytes}
        \cup {RuSt, ruSt, RUSt, Rust, RuST, Ru1t}

SeqsUpTo(S, n) == UNION {[1..k -> S] : k \in 0..n}

\* Characters of 1, 2, 3 and 4 bytes: 'R', 't', '1', U+00E9, U+20AC, U+1F600.
StrChars == {82, 116, 49, 233, 8364, 128512}

StrInputs == SeqsUpTo(StrChars, MaxStr) \cup {RuSt, ruSt, RUSt, Rust, RuST, Ru1t}

DataBytes == {0, 255}

\* Type codes given to Chunk::new and written into the buffers.
ChunkTypeInputs == {RuSt, RuST, <<65, 90, 97, 122>>, Ru1t, <<82, 117, 83, 123>>}

DataInputs == SeqsUpTo(DataBytes, MaxData)

\* Declared lengths written into the buffers: the small ones, and those
\* around 2^31 and at the top of u32.
DeclaredLengths ==
    {U32(0, n) : n \in 0..(MaxData + 1)}
        \cup {U32(0, 256), U32(256, 0), U32(32767, 65535), U32(32768, 0),
              U32(32768, 1), U32(65535, 65535)}

\* x - 1 on u32, wrapping
U32Pred(x) ==
    IF x.lo > 0 THEN U32(x.hi, x.lo - 1)
    ELSE U32((x.hi + Half - 1) % Half, Half - 1)

\* Checksum fields written after the data d of type ty: the right one, the
\* right one less one, and zero.
CrcInputs(ty, d) ==
    LET c == checksum(CRC_32_CKSUM, ty \o d) IN {c, U32Pred(c), U32(0, 0)}

TrailInputs == SeqsUpTo({0, 7}, MaxTrail)

WholeBuffers ==
    UNION {UNION {{to_be_bytes(l) \o ty \o d \o to_be_bytes(c) \o t :
                       l \in DeclaredLengths, c \in CrcInputs(ty, d), t \in TrailInputs} :
                  d \in DataInputs} : ty \in ChunkTypeInputs}

\* Every buffer above, and every buffer cut short of one.
BufferInputs ==
    {SubSeq(w, 1, Min(k, Len(w))) : w \in WholeBuffers, k \in 0..(MaxData + MaxTrail + 12)}
        \cup {TestBuffer(TestCrc), TestBuffer(TestBadCrc)}

----------------------------------------------------------------------------
(* The state machine.                                                      *)

Start(w, in) ==
    /\ width = w
    /\ input = in
    /\ op = "init"
    /\ ctype = None
    /\ chunk = None
    /\ out = <<>>
    /\ ext = <<>>
    /\ res = None

Init ==
    \/ \E b \in TypeInputs : Start(32, [kind |-> "type", type |-> b])
    \/ \E s \in StrInputs : Start(32, [kind |-> "str", str |-> s])
    \/ \E b \in ChunkTypeInputs, d \in DataInputs \cup {Message} :
           Start(32, [kind |-> "new", type |-> b, data |-> d])
    \/ \E v \in BufferInputs : Start(32, [kind |-> "buffer", value |-> v])

\* ChunkType::try_from(bytes)
TypeTryFrom ==
    /\ op = "init"
    /\ input.kind \in {"type", "new"}
    /\ res' = ChunkType_try_from(input.type)
    /\ ctype' = IF res'.tag = "Ok" THEN res'.val ELSE None
    /\ op' = "ChunkType::try_from"
    /\ UNCHANGED <<width, input, chunk, out, ext>>

\* ChunkType::from_str(s)
TypeFromStr ==
    /\ op = "init"
    /\ input.kind = "str"
    /\ res' = ChunkType_from_str(input.str)
    /\ ctype' = IF res'.tag = "Ok" THEN res'.val ELSE None
    /\ op' = "ChunkType::from_str"
    /\ UNCHANGED <<width, input, chunk, out, ext>>

\* Chunk::new(chunk_type, chunk_data), with the ChunkType just constructed
New ==
    /\ op = "ChunkType::try_from"
    /\ input.kind = "new"
    /\ ctype # None
    /\ chunk' = Chunk_new(ctype, input.data)
    /\ op' = "Chunk::new"
    /\ UNCHANGED <<width, input, ctype, out, ext, res>>

\* Chunk::try_from(value)
TryFrom ==
    /\ op = "init"
    /\ input.kind = "buffer"
    /\ res' = Chunk_try_from(input.value)
    /\ chunk' = IF res'.tag = "Ok" THEN res'.val ELSE None
    /\ op' = "Chunk::try_from"
    /\ UNCHANGED <<width, input, ctype, out, ext>>

\* chunk.as_bytes()
AsBytes ==
    /\ op \in {"Chunk::new", "Chunk::try_from"}
    /\ chunk # None
    /\ out' = Chunk_as_bytes(chunk)
    /\ op' = "Chunk::as_bytes"
    /\ UNCHANGED <<width, input, ctype, chunk, ext, res>>

\* Chunk::try_from(chunk.as_bytes()): the bytes written are decoded again
\* (the Chunk held stays the one they were written from).
Redecode ==
    /\ op = "Chunk::as_bytes"
    /\ res' = Chunk_try_from(out)
    /\ op' = "redecode"
    /\ UNCHANGED <<width, input, ctype, chunk, out, ext>>

\* Chunk::try_from(value ++ t): a buffer that decoded is decoded again with
\* more bytes after it (the Chunk held stays the one decoded from value).
TryFromExtended ==
    /\ op = "Chunk::try_from"
    /\ chunk # None
    /\ \E t \in TrailInputs \ {<<>>} :
           /\ ext' = t
           /\ res' = Chunk_try_from(input.value \o t)
    /\ op' = "try_from_extended"
    /\ UNCHANGED <<width, input, ctype, chunk, out>>

Next ==
    \/ TypeTryFrom
    \/ TypeFromStr
    \/ New
    \/ TryFrom
    \/ AsBytes
    \/ Redecode
    \/ TryFromExtended

Spec == Init /\ [][Next]_vars

(* The narrow build: u32 has NarrowBits bits, so that data of 2^NarrowBits  *)
(* bytes and more, which Chunk::new accepts, can be drawn.                  *)

NarrowDataInputs == SeqsUpTo(DataBytes, Pow2(NarrowBits) + 1)

InitNarrow ==
    \E b \in ChunkTypeInputs, d \in NarrowDataInputs :
        Start(NarrowBits, [kind |-> "new", type |-> b, data |-> d])

NextNarrow ==
    \/ TypeTryFrom
    \/ New
    \/ AsBytes

SpecNarrow == InitNarrow /\ [][NextNarrow]_vars

----------------------------------------------------------------------------
(* The properties.                                                         *)

Letters == (65..90) \cup (97..122)

\* The positions of b that hold no letter.
NonLetters(b) == {i \in 1..Len(b) : b[i] \notin Letters}

First(S) == CHOOSE i \in S : \A j \in S : i <= j

\* Bit 5 (value 32) of a byte.
Bit5(b) == (b \div 32) % 2

\* The declared length of a buffer of 4 bytes or more is 2^31 or more.
DeclaresLong(v) == v[1] >= 128

\* C1: round trip.  When a buffer b decodes to a chunk c, decoding
\* c.as_bytes() succeeds and gives a chunk equal to c in length, type code,
\* data and checksum; and when b ends with the checksum, c.as_bytes() is b.
C1_RoundTrip ==
    (op = "redecode" /\ input.kind = "buffer") =>
        /\ res.tag = "Ok"
        /\ length(res.val) = length(chunk)
        /\ bytes(chunk_type(res.val)) = bytes(chunk_type(chunk))
        /\ data(res.val) = data(chunk)
        /\ crc(res.val) = crc(chunk)
        /\ (Len(input.value) = 12 + ToNat(from_be_bytes(SubSeq(input.value, 1, 4))))
               => out = input.value

\* A buffer with data, ending with its checksum, was decoded, written and
\* decoded again.
C1_Witness ==
    /\ op = "redecode"
    /\ input.kind = "buffer"
    /\ Len(input.value) = 12 + MaxData
    /\ Len(data(chunk)) = MaxData

C3_ValidityGating ==
    /\ op = "ChunkType::try_from" =>
           LET b == input.type
           IN  IF NonLetters(b) = {}
               THEN res.tag = "Ok" /\ bytes(res.val) = b /\ ctype = res.val
               ELSE res = BadByte(b[First(NonLetters(b))]) /\ ctype = None
    /\ ctype # None => NonLetters(bytes(ctype)) = {}
    /\ chunk # None => NonLetters(bytes(chunk_type(chunk))) = {}

\* Four bytes with two different bytes that are no letters were refused.
C3_Witness ==
    /\ op = "ChunkType::try_from"
    /\ res.tag = "BadByte"
    /\ \E i, j \in NonLetters(input.type) : i < j /\ input.type[i] # input.type[j]

C5_Original ==
    /\ ctype = ChunkType(RuSt) =>
           /\ is_critical(ctype)
           /\ ~is_public(ctype)
           /\ is_reserved_bit_valid(ctype)
           /\ ~is_safe_to_copy(ctype)
    /\ ctype = ChunkType(RuST) => is_safe_to_copy(ctype)

\* C5, amended: "RuSt" is critical, not public, reserved-valid and safe to
\* copy, and "RuST" is not safe to copy.
C5_Amended ==
    /\ ctype = ChunkType(RuSt) =>
           /\ is_critical(ctype)
           /\ ~is_public(ctype)
           /\ is_reserved_bit_valid(ctype)
           /\ is_safe_to_copy(ctype)
    /\ ctype = ChunkType(RuST) => ~is_safe_to_copy(ctype)

\* "RuST" was constructed from its text.
C5_Witness == op = "ChunkType::from_str" /\ ctype = ChunkType(RuST)

\* C6, as claimed: Chunk::new("RuSt", "This is where your secret message will
\* be!") has length() 42 and crc() 2882656334 (the value the 54-byte buffer of
\* the scenario must carry to decode).
C6_Claim ==
    (op = "Chunk::new" /\ input.type = RuSt /\ input.data = Message) =>
        length(chunk) = U32(0, 42) /\ crc(chunk) = TestCrc

\* C7: when the first 4 bytes of the buffer, big-endian, are 2^31 or more,
\* Chunk::try_from returns LongLength of that length, whatever the type
\* bytes, the number of bytes that follow and the checksum are; a declared
\* length of 2^31 - 1 does not give that error.
C7_LengthFirst ==
    (op \in {"Chunk::try_from", "try_from_extended"} /\ Len(input.value \o ext) >= 4) =>
        LET v == input.value \o ext
        IN  /\ DeclaresLong(v) => res = LongLength(from_be_bytes(SubSeq(v, 1, 4)))
            /\ SubSeq(v, 1, 4) = <<127, 255, 255, 255>> => res.tag # "LongLength"

\* A buffer declaring exactly 2^31 bytes, with a type code that is no type
\* code, was refused for its length.
C7_Witness ==
    /\ op = "Chunk::try_from"
    /\ Len(input.value) >= 8
    /\ SubSeq(input.value, 1, 4) = <<128, 0, 0, 0>>
    /\ NonLetters(SubSeq(input.value, 5, 8)) # {}
    /\ res.tag = "LongLength"

\* C8: when a buffer b decodes with declared length n, b followed by any
\* bytes t decodes to the same chunk, its checksum read at offsets
\* 8+n .. 12+n and its data at offsets 8 .. 8+n.
C8_TrailingIgnored ==
    op = "try_from_extended" =>
        LET v == input.value \o ext
            n == ToNat(from_be_bytes(SubSeq(v, 1, 4)))
        IN  /\ res = Ok(chunk)
            /\ crc(res.val) = from_be_bytes(SubSeq(v, 9 + n, 12 + n))
            /\ data(res.val) = SubSeq(v, 9, 8 + n)
            /\ Len(data(res.val)) = n

\* A buffer with data that ended with its checksum was decoded again with
\* bytes after it.
C8_Witness ==
    /\ op = "try_from_extended"
    /\ ext # <<>>
    /\ Len(data(chunk)) > 0
    /\ Len(input.value) = 12 + Len(data(chunk))
    /\ res.tag = "Ok"

\* C9, as claimed: for every Chunk, length() is the number of bytes of
\* data(), and as_bytes() is 12 + length() bytes: the length big-endian, the
\* 4 type bytes, the data, the checksum big-endian.
C9_Claim ==
    /\ chunk # None => ToNat(length(chunk)) = Len(data(chunk))
    /\ (op = "Chunk::as_bytes") =>
           /\ Len(out) = 12 + ToNat(length(chunk))
           /\ out = to_be_bytes(AsU32(Len(data(chunk)), 32)) \o bytes(chunk_type(chunk))
                        \o data(chunk) \o to_be_bytes(crc(chunk))

\* C10, as claimed: from_str(s) returns BadLength of the length of s when s
\* is not 4 characters long, before it looks at any letter; for 4 ASCII
\* letters it returns what try_from returns for the 4 bytes of s; for 4
\* characters with one that is no letter it returns BadByte of the first
\* offending byte.
C10_Original ==
    op = "ChunkType::from_str" =>
        LET s == input.str
            b == str_as_bytes(s)
        IN  IF Len(s) # 4 THEN res = BadLength(Len(s))
            ELSE IF \A i \in 1..4 : s[i] \in Letters
            THEN res.tag = "Ok" /\ res = ChunkType_try_from(b)
            ELSE res = BadByte(b[First(NonLetters(b))])

\* C10, amended: the length from_str checks, and reports in BadLength, is
\* the number of bytes of s in UTF-8.  When it is not 4 the result is
\* BadLength of it, before any letter is looked at; for 4 ASCII letters the
\* result is what try_from returns for the 4 bytes of s; for 4 bytes with
\* one that is no letter it is BadByte of the first such byte ("Ru1t": 49).
C10_Amended ==
    op = "ChunkType::from_str" =>
        LET s == input.str
            b == str_as_bytes(s)
        IN  /\ IF Len(b) # 4 THEN res = BadLength(Len(b))
               ELSE IF NonLetters(b) = {}
               THEN res.tag = "Ok" /\ res = ChunkType_try_from(b) /\ bytes(res.val) = b
               ELSE res = BadByte(b[First(NonLetters(b))])
            /\ s = Ru1t => res = BadByte(49)
            /\ ctype = (IF res.tag = "Ok" THEN res.val ELSE None)

\* A string of 3 characters and 4 bytes was refused for a byte, not for its
\* length.
C10_Witness ==
    /\ op = "ChunkType::from_str"
    /\ Len(input.str) = 3
    /\ str_len(input.str) = 4
    /\ res.tag = "BadByte"

====
